---- MODULE Spec2Model ----
(***************************************************************************)
(* Olive Contractors cost estimator (src/app.py).                          *)
(*                                                                         *)
(* The program is a Streamlit script: every user interaction changes one   *)
(* widget value and the whole script runs again from the top.  One action  *)
(* of this model is one interaction together with the script run it        *)
(* causes.  Amounts are real numbers in the source; here they are exact    *)
(* fractions <<numerator, denominator>> in lowest terms.                   *)
(***************************************************************************)
EXTENDS Integers, Sequences, FiniteSets

(* ------------------------------ bounds -------------------------------- *)

\* quantities the user types into a Qty field: 0..MaxQty (0 is below min_value)
MaxQty == 2

\* square footages the user types: 0, 1 and 40*k for k in 1..MaxSqftK
MaxSqftK == 1

(* ------------------------- program constants -------------------------- *)

\* number_input(min_value=1) of "Square Footage" and of every "Qty"
MinValue == 1

\* number_input(value=500) of "Square Footage"
DefaultSquareFootage == 500

\* number_input(value=50 if per_sqft else 1) of "Qty"
DefaultQtyPerSqft == 50

DefaultQtyPerUnit == 1

\* selectbox(index=1) of "Select Finish Level" (0-based)
DefaultFinishIndex == 1

(* --------------------------- real arithmetic -------------------------- *)

Abs(x) == IF x < 0 THEN -x ELSE x

RECURSIVE GCD(_, _)
GCD(a, b) == IF b = 0 THEN a ELSE GCD(b, a % b)

LCM(a, b) == (a \div GCD(a, b)) * b

\* the fraction n/d (d > 0) in lowest terms
Rat(n, d) == LET g == GCD(Abs(n), d) IN <<n \div g, d \div g>>

Num(n) == <<n, 1>>

RAdd(x, y) ==
    LET l == LCM(x[2], y[2])
    IN  Rat(x[1] * (l \div x[2]) + y[1] * (l \div y[2]), l)

RSub(x, y) == RAdd(x, <<-y[1], y[2]>>)

RMul(x, y) ==
    LET g1 == GCD(Abs(x[1]), y[2])
        g2 == GCD(Abs(y[1]), x[2])
    IN  <<(x[1] \div g1) * (y[1] \div g2), (x[2] \div g2) * (y[2] \div g1)>>

RLe(x, y) ==
    LET l == LCM(x[2], y[2])
    IN  x[1] * (l \div x[2]) <= y[1] * (l \div y[2])

\* Python's max(a, b)
RMax(x, y) == IF RLe(y, x) THEN x ELSE y

\* percent / 100
Percent(p) == Rat(p, 100)

(* --------------------------- reference data --------------------------- *)

\* PROJECT_TYPES.csv obeying base_cost_per_sqft_low <= base_cost_per_sqft_high
ProjectTypesOrdered ==
    << [project_type_id |-> 1, base_cost_per_sqft_low |-> 100,
        base_cost_per_sqft_high |-> 150, min_project_cost |-> 5000],
       [project_type_id |-> 2, base_cost_per_sqft_low |-> 50,
        base_cost_per_sqft_high |-> 80, min_project_cost |-> 0],
       [project_type_id |-> 3, base_cost_per_sqft_low |-> 20,
        base_cost_per_sqft_high |-> 20, min_project_cost |-> 3000] >>

\* PROJECT_TYPES.csv whose second row has its low rate above its high rate
ProjectTypesInverted ==
    [ProjectTypesOrdered EXCEPT ![2].base_cost_per_sqft_low = 80,
                                ![2].base_cost_per_sqft_high = 50]

ProjectTypeTables == {ProjectTypesOrdered, ProjectTypesInverted}

\* FINISH_LEVELS.csv: multipliers 1.0 and 1.2
finish_levels_df ==
    << [finish_level_id |-> 1, multiplier |-> <<1, 1>>],
       [finish_level_id |-> 2, multiplier |-> <<6, 5>>] >>

\* STRUCTURAL_COMPLEXITY.csv: multipliers 1.0 and 1.1
complexity_df ==
    << [complexity_id |-> 1, multiplier |-> <<1, 1>>],
       [complexity_id |-> 2, multiplier |-> <<11, 10>>] >>

\* ADD_ONS.csv; project type 3 has no add-on, add-on 3 has a pricing_type
\* that is none of flat, per_sqft, per_unit
add_ons_df ==
    << [addon_id |-> 1, project_type_id |-> 1, pricing_type |-> "flat",
        low |-> 1000, high |-> 2000],
       [addon_id |-> 2, project_type_id |-> 1, pricing_type |-> "per_sqft",
        low |-> 10, high |-> 15],
       [addon_id |-> 3, project_type_id |-> 1, pricing_type |-> "hourly",
        low |-> 300, high |-> 500],
       [addon_id |-> 4, project_type_id |-> 2, pricing_type |-> "per_unit",
        low |-> 200, high |-> 350],
       [addon_id |-> 5, project_type_id |-> 2, pricing_type |-> "flat",
        low |-> 400, high |-> 400] >>

ConfigKeys ==
    {"default_contingency_percent", "default_contractor_markup_percent", "currency"}

ContingencyPercent == 10

MarkupPercent == 15

\* CONFIG.csv with every key
FullConfig ==
    [default_contingency_percent |-> ContingencyPercent,
     default_contractor_markup_percent |-> MarkupPercent,
     currency |-> "CAD"]

\* CONFIG.csv as written by its author: every key, or one key missing
ConfigFiles ==
    { [k \in ConfigKeys \ m |-> FullConfig[k]] :
        m \in {{}} \cup {{k} : k \in ConfigKeys} }

\* the files the program is started on: unreadable files, readable files with
\* either project-type table, readable files with a key missing from CONFIG.csv
DataSets ==
    {<<FALSE, ProjectTypesOrdered, FullConfig>>}
    \cup {<<TRUE, t, FullConfig>> : t \in ProjectTypeTables}
    \cup {<<TRUE, ProjectTypesOrdered, c>> : c \in ConfigFiles}

AddonRow(id) == CHOOSE a \in {add_ons_df[i] : i \in DOMAIN add_ons_df} : a.addon_id = id

AddonIds == {add_ons_df[i].addon_id : i \in DOMAIN add_ons_df}

(* ------------------------------- state -------------------------------- *)

VARIABLES
    csv_ok,                 \* the five pd.read_csv calls all succeed
    project_types_df,       \* PROJECT_TYPES.csv
    config,                 \* dict(zip(config['Key'], config['Value']))
    show_results,           \* st.session_state.show_results
    selected_project_id,    \* widget "Select Project Type"
    square_footage,         \* widget "Square Footage"
    selected_finish_id,     \* widget "Select Finish Level"
    selected_complexity_id, \* widget "Structural Changes"
    checked,                \* add-on ids whose checkbox addon_<id> is ticked
    addon_sqft_inputs,      \* add-on id -> value of widget qty_<id>
    refused,                \* last number typed below a field's min_value
    page                    \* what the last script run rendered

vars == <<csv_ok, project_types_df, config, show_results, selected_project_id,
          square_footage, selected_finish_id, selected_complexity_id, checked,
          addon_sqft_inputs, refused, page>>

data == <<csv_ok, project_types_df, config>>

ProjectIds == {project_types_df[i].project_type_id : i \in DOMAIN project_types_df}

FinishIds == {finish_levels_df[i].finish_level_id : i \in DOMAIN finish_levels_df}

ComplexityIds == {complexity_df[i].complexity_id : i \in DOMAIN complexity_df}

\* project_types_df[project_types_df['project_type_id'] == id].iloc[0]
project_info(id) ==
    CHOOSE r \in {project_types_df[i] : i \in DOMAIN project_types_df} :
        r.project_type_id = id

finish_info(id) ==
    CHOOSE r \in {finish_levels_df[i] : i \in DOMAIN finish_levels_df} :
        r.finish_level_id = id

complexity_info(id) ==
    CHOOSE r \in {complexity_df[i] : i \in DOMAIN complexity_df} :
        r.complexity_id = id

\* load_data(): the five tables, or None when any read raises
load_data == IF csv_ok THEN "tables" ELSE "None"

(* --------------------------- the calculation -------------------------- *)

BaseCostNoFloor(sqft, rate, min_project_cost) == Num(sqft * rate)

\* max(square_footage * rate, project_info['min_project_cost'])
BaseCost(sqft, rate, min_project_cost) ==
    RMax(Num(sqft * rate), Num(min_project_cost))

\* addon_sqft_inputs.get(addon['addon_id'], 1)
QtyOf(addon, inputs) ==
    IF addon.addon_id \in DOMAIN inputs THEN inputs[addon.addon_id] ELSE 1

ContributionHighIgnoresQty(addon, inputs) ==
    IF addon.pricing_type \in {"per_sqft", "per_unit"}
    THEN <<Num(addon.low * QtyOf(addon, inputs)), Num(addon.high)>>
    ELSE <<Num(addon.low), Num(addon.high)>>

ContributionIgnoresQty(addon, inputs) == <<Num(addon.low), Num(addon.high)>>

ContributionFlatTimesArea(addon, inputs) ==
    IF addon.pricing_type = "flat"
    THEN <<Num(addon.low * square_footage), Num(addon.high * square_footage)>>
    ELSE IF addon.pricing_type \in {"per_sqft", "per_unit"}
    THEN <<Num(addon.low * QtyOf(addon, inputs)), Num(addon.high * QtyOf(addon, inputs))>>
    ELSE <<Num(addon.low), Num(addon.high)>>

ContributionSkipsUnknown(addon, inputs) ==
    IF addon.pricing_type = "flat"
    THEN <<Num(addon.low), Num(addon.high)>>
    ELSE IF addon.pricing_type \in {"per_sqft", "per_unit"}
    THEN <<Num(addon.low * QtyOf(addon, inputs)), Num(addon.high * QtyOf(addon, inputs))>>
    ELSE <<Num(0), Num(0)>>

\* one pass of the loop "for addon in selected_addons": <<addon_low, addon_high>>
AddonContribution(addon, inputs) ==
    IF addon.pricing_type = "flat"
    THEN <<Num(addon.low), Num(addon.high)>>
    ELSE IF addon.pricing_type \in {"per_sqft", "per_unit"}
    THEN <<Num(addon.low * QtyOf(addon, inputs)), Num(addon.high * QtyOf(addon, inputs))>>
    ELSE <<Num(addon.low), Num(addon.high)>>

\* addon_details after the loop
AddonDetails(selected_addons, inputs) ==
    [i \in DOMAIN selected_addons |->
        [addon_id |-> selected_addons[i].addon_id,
         low |-> AddonContribution(selected_addons[i], inputs)[1],
         high |-> AddonContribution(selected_addons[i], inputs)[2]]]

\* addons_total_low / addons_total_high after the loop
RECURSIVE SumLow(_)
SumLow(details) ==
    IF details = <<>> THEN Num(0)
    ELSE RAdd(SumLow(SubSeq(details, 1, Len(details) - 1)), details[Len(details)].low)

RECURSIVE SumHigh(_)
SumHigh(details) ==
    IF details = <<>> THEN Num(0)
    ELSE RAdd(SumHigh(SubSeq(details, 1, Len(details) - 1)), details[Len(details)].high)

AfterContingencyForgotten(subtotal, contingency) == subtotal

\* after_contingency = subtotal + contingency
AfterContingency(subtotal, contingency) == RAdd(subtotal, contingency)

\* the results section from "Calculate base cost" to final_total_high
Estimate(pid, sqft, fid, cid, selected_addons, inputs, cfg) ==
    LET info == project_info(pid)
        contingency_percent == Percent(cfg["default_contingency_percent"])
        markup_percent == Percent(cfg["default_contractor_markup_percent"])
        base_cost_low == BaseCost(sqft, info.base_cost_per_sqft_low, info.min_project_cost)
        base_cost_high == BaseCost(sqft, info.base_cost_per_sqft_high, info.min_project_cost)
        after_finish_low == RMul(base_cost_low, finish_info(fid).multiplier)
        after_finish_high == RMul(base_cost_high, finish_info(fid).multiplier)
        after_complexity_low == RMul(after_finish_low, complexity_info(cid).multiplier)
        after_complexity_high == RMul(after_finish_high, complexity_info(cid).multiplier)
        addon_details == AddonDetails(selected_addons, inputs)
        addons_total_low == SumLow(addon_details)
        addons_total_high == SumHigh(addon_details)
        subtotal_low == RAdd(after_complexity_low, addons_total_low)
        subtotal_high == RAdd(after_complexity_high, addons_total_high)
        contingency_low == RMul(subtotal_low, contingency_percent)
        contingency_high == RMul(subtotal_high, contingency_percent)
        after_contingency_low == AfterContingency(subtotal_low, contingency_low)
        after_contingency_high == AfterContingency(subtotal_high, contingency_high)
        markup_low == RMul(after_contingency_low, markup_percent)
        markup_high == RMul(after_contingency_high, markup_percent)
    IN  [base_cost_low |-> base_cost_low, base_cost_high |-> base_cost_high,
         after_finish_low |-> after_finish_low, after_finish_high |-> after_finish_high,
         after_complexity_low |-> after_complexity_low,
         after_complexity_high |-> after_complexity_high,
         addon_details |-> addon_details,
         addons_total_low |-> addons_total_low, addons_total_high |-> addons_total_high,
         subtotal_low |-> subtotal_low, subtotal_high |-> subtotal_high,
         contingency_low |-> contingency_low, contingency_high |-> contingency_high,
         markup_low |-> markup_low, markup_high |-> markup_high,
         final_total_low |-> RAdd(after_contingency_low, markup_low),
         final_total_high |-> RAdd(after_contingency_high, markup_high)]

\* nothing was calculated in this run
NoEstimate ==
    [base_cost_low |-> Num(0), base_cost_high |-> Num(0),
     after_finish_low |-> Num(0), after_finish_high |-> Num(0),
     after_complexity_low |-> Num(0), after_complexity_high |-> Num(0),
     addon_details |-> <<>>,
     addons_total_low |-> Num(0), addons_total_high |-> Num(0),
     subtotal_low |-> Num(0), subtotal_high |-> Num(0),
     contingency_low |-> Num(0), contingency_high |-> Num(0),
     markup_low |-> Num(0), markup_high |-> Num(0),
     final_total_low |-> Num(0), final_total_high |-> Num(0)]

(* ----------------------------- the script ----------------------------- *)

AllAddons(pid) == add_ons_df

\* add_ons_df[add_ons_df['project_type_id'] == selected_project_id]
relevant_addons(pid) ==
    SelectSeq(add_ons_df, LAMBDA a : a.project_type_id = pid)

RelevantIds(pid) == {relevant_addons(pid)[i].addon_id : i \in DOMAIN relevant_addons(pid)}

\* the rows appended to selected_addons: the rendered checkboxes that are ticked
selected_addons(pid, chk) ==
    SelectSeq(relevant_addons(pid), LAMBDA a : a.addon_id \in chk)

\* the Qty fields rendered in this run, each with its kept or its default value
QtyInputs(pid, chk, qtys) ==
    LET rendered == {a \in RelevantIds(pid) \cap chk :
                        AddonRow(a).pricing_type \in {"per_sqft", "per_unit"}}
    IN  [a \in rendered |->
            IF a \in DOMAIN qtys THEN qtys[a]
            ELSE IF AddonRow(a).pricing_type = "per_sqft"
                 THEN DefaultQtyPerSqft ELSE DefaultQtyPerUnit]

ButtonReturnAssigned(flag, clicked) == clicked

\* if st.button(...): st.session_state.show_results = True
CalculateButton(flag, clicked) == IF clicked THEN TRUE ELSE flag

AcceptsAnything(n) == TRUE

\* number_input(min_value=1): a smaller number never reaches the script
NumberInputAccepts(n) == n >= MinValue

\* what one run of the script leaves behind, given the session flag and the
\* widget values the browser sent with the rerun request
RunScript(flag, clicked, pid, sqft, fid, cid, chk, qtys) ==
    IF load_data = "None"
    THEN \* st.error(...); st.stop()
         [show_results |-> flag, checked |-> {}, addon_sqft_inputs |-> <<>>,
          page |-> [outcome |-> "stopped", clicked |-> FALSE, ignored |-> {},
                    result |-> NoEstimate]]
    ELSE
    LET shown == CalculateButton(flag, clicked)
        inputs == QtyInputs(pid, chk, qtys)
        kept == chk \cap RelevantIds(pid)
        outcome == IF ~shown THEN "form"
                   ELSE IF ConfigKeys \subseteq DOMAIN config THEN "estimate"
                   ELSE "KeyError"
    IN  [show_results |-> shown,
         checked |-> kept,
         addon_sqft_inputs |-> inputs,
         page |-> [outcome |-> outcome,
                   clicked |-> clicked,
                   ignored |-> chk \ kept,
                   result |-> IF outcome = "estimate"
                              THEN Estimate(pid, sqft, fid, cid,
                                            selected_addons(pid, chk), inputs, config)
                              ELSE NoEstimate]]

NothingRefused == [widget |-> "none", value |-> 0]

\* the script reruns with the given widget values
Rerun(flag, clicked, pid, sqft, fid, cid, chk, qtys, ref) ==
    LET run == RunScript(flag, clicked, pid, sqft, fid, cid, chk, qtys)
    IN  /\ show_results' = run.show_results
        /\ selected_project_id' = pid
        /\ square_footage' = sqft
        /\ selected_finish_id' = fid
        /\ selected_complexity_id' = cid
        /\ checked' = run.checked
        /\ addon_sqft_inputs' = run.addon_sqft_inputs
        /\ page' = run.page
        /\ refused' = ref
        /\ UNCHANGED data

\* the first run of a session: an empty session_state and every widget at its default
FirstRun ==
    Rerun(FALSE, FALSE, project_types_df[1].project_type_id, DefaultSquareFootage,
          finish_levels_df[DefaultFinishIndex + 1].finish_level_id,
          complexity_df[1].complexity_id, {}, <<>>, NothingRefused)

\* the widgets were rendered by the last run (it did not end in st.stop())
FormShown == page.outcome # "stopped"

SqftTyped == {0, 1} \cup {40 * k : k \in 1..MaxSqftK}

QtyTyped == 0..MaxQty

Init ==
    /\ \E d \in DataSets :
          /\ csv_ok = d[1]
          /\ project_types_df = d[2]
          /\ config = d[3]
    /\ LET run == RunScript(FALSE, FALSE, project_types_df[1].project_type_id,
                            DefaultSquareFootage,
                            finish_levels_df[DefaultFinishIndex + 1].finish_level_id,
                            complexity_df[1].complexity_id, {}, <<>>)
       IN  /\ show_results = run.show_results
           /\ selected_project_id = project_types_df[1].project_type_id
           /\ square_footage = DefaultSquareFootage
           /\ selected_finish_id = finish_levels_df[DefaultFinishIndex + 1].finish_level_id
           /\ selected_complexity_id = complexity_df[1].complexity_id
           /\ checked = run.checked
           /\ addon_sqft_inputs = run.addon_sqft_inputs
           /\ page = run.page
           /\ refused = NothingRefused

SelectProjectType(t) ==
    /\ FormShown
    /\ t # selected_project_id
    /\ Rerun(show_results, FALSE, t, square_footage, selected_finish_id,
             selected_complexity_id, checked, addon_sqft_inputs, NothingRefused)

EnterSquareFootage(n) ==
    /\ FormShown
    /\ n # square_footage
    /\ NumberInputAccepts(n)
    /\ Rerun(show_results, FALSE, selected_project_id, n, selected_finish_id,
             selected_complexity_id, checked, addon_sqft_inputs, NothingRefused)

\* a number below min_value: the field keeps its value, or falls back to min_value
RefuseSquareFootage(n) ==
    /\ FormShown
    /\ ~NumberInputAccepts(n)
    /\ \/ /\ refused' = [widget |-> "square_footage", value |-> n]
          /\ UNCHANGED <<data, show_results, selected_project_id, square_footage,
                         selected_finish_id, selected_complexity_id, checked,
                         addon_sqft_inputs, page>>
       \/ Rerun(show_results, FALSE, selected_project_id, MinValue, selected_finish_id,
                selected_complexity_id, checked, addon_sqft_inputs,
                [widget |-> "square_footage", value |-> n])

SelectFinishLevel(f) ==
    /\ FormShown
    /\ f # selected_finish_id
    /\ Rerun(show_results, FALSE, selected_project_id, square_footage, f,
             selected_complexity_id, checked, addon_sqft_inputs, NothingRefused)

SelectComplexity(c) ==
    /\ FormShown
    /\ c # selected_complexity_id
    /\ Rerun(show_results, FALSE, selected_project_id, square_footage,
             selected_finish_id, c, checked, addon_sqft_inputs, NothingRefused)

\* tick or untick one of the rendered checkboxes
ToggleAddon(a) ==
    /\ FormShown
    /\ a \in RelevantIds(selected_project_id)
    /\ Rerun(show_results, FALSE, selected_project_id, square_footage,
             selected_finish_id, selected_complexity_id,
             IF a \in checked THEN checked \ {a} ELSE checked \cup {a},
             addon_sqft_inputs, NothingRefused)

EnterQty(a, q) ==
    /\ FormShown
    /\ a \in DOMAIN addon_sqft_inputs
    /\ q # addon_sqft_inputs[a]
    /\ NumberInputAccepts(q)
    /\ Rerun(show_results, FALSE, selected_project_id, square_footage,
             selected_finish_id, selected_complexity_id, checked,
             [addon_sqft_inputs EXCEPT ![a] = q], NothingRefused)

RefuseQty(a, q) ==
    /\ FormShown
    /\ a \in DOMAIN addon_sqft_inputs
    /\ ~NumberInputAccepts(q)
    /\ \/ /\ refused' = [widget |-> "qty", value |-> q]
          /\ UNCHANGED <<data, show_results, selected_project_id, square_footage,
                         selected_finish_id, selected_complexity_id, checked,
                         addon_sqft_inputs, page>>
       \/ Rerun(show_results, FALSE, selected_project_id, square_footage,
                selected_finish_id, selected_complexity_id, checked,
                [addon_sqft_inputs EXCEPT ![a] = MinValue],
                [widget |-> "qty", value |-> q])

ClickCalculate ==
    /\ FormShown
    /\ Rerun(show_results, TRUE, selected_project_id, square_footage,
             selected_finish_id, selected_complexity_id, checked,
             addon_sqft_inputs, NothingRefused)

\* the page is opened again: a new session over the cached load_data() result
NewSession == FirstRun

Next ==
    \/ \E t \in ProjectIds : SelectProjectType(t)
    \/ \E n \in SqftTyped : EnterSquareFootage(n)
    \/ \E n \in SqftTyped : RefuseSquareFootage(n)
    \/ \E f \in FinishIds : SelectFinishLevel(f)
    \/ \E c \in ComplexityIds : SelectComplexity(c)
    \/ \E a \in AddonIds : ToggleAddon(a)
    \/ \E a \in AddonIds, q \in QtyTyped : EnterQty(a, q)
    \/ \E a \in AddonIds, q \in QtyTyped : RefuseQty(a, q)
    \/ ClickCalculate
    \/ NewSession

Spec == Init /\ [][Next]_vars

TypeOK ==
    /\ show_results \in BOOLEAN
    /\ selected_project_id \in ProjectIds
    /\ square_footage \in SqftTyped \cup {DefaultSquareFootage}
    /\ checked \subseteq AddonIds
    /\ page.outcome \in {"stopped", "form", "estimate", "KeyError"}

(* ------------------------------- claims ------------------------------- *)

\* the last run rendered a cost breakdown
Estimated == page.outcome = "estimate"

ConfigComplete == ConfigKeys \subseteq DOMAIN config

\* the breakdown the results section computes from the current widget values
CurrentEstimate ==
    Estimate(selected_project_id, square_footage, selected_finish_id,
             selected_complexity_id, selected_addons(selected_project_id, checked),
             addon_sqft_inputs, config)

\* the reference data obeys low <= high and has no negative number
DataInvariant ==
    /\ \A i \in DOMAIN project_types_df :
          /\ project_types_df[i].base_cost_per_sqft_low
                <= project_types_df[i].base_cost_per_sqft_high
          /\ project_types_df[i].base_cost_per_sqft_low >= 0
          /\ project_types_df[i].min_project_cost >= 0
    /\ \A i \in DOMAIN add_ons_df :
          add_ons_df[i].low >= 0 /\ add_ons_df[i].low <= add_ons_df[i].high
    /\ \A i \in DOMAIN finish_levels_df : finish_levels_df[i].multiplier[1] >= 0
    /\ \A i \in DOMAIN complexity_df : complexity_df[i].multiplier[1] >= 0
    /\ ConfigComplete
    /\ config["default_contingency_percent"] >= 0
    /\ config["default_contractor_markup_percent"] >= 0

\* C1: over reference data with low <= high and no negative multiplier or
\* percentage, every estimate has final_total_low <= final_total_high.
C1_FinalLowLeHigh ==
    (Estimated /\ DataInvariant) =>
        RLe(page.result.final_total_low, page.result.final_total_high)

\* an estimate with add-ons, one of them priced by quantity, whose low total is
\* strictly below its high total
C1_Witness ==
    /\ Estimated
    /\ DataInvariant
    /\ DOMAIN addon_sqft_inputs # {}
    /\ ~RLe(page.result.final_total_high, page.result.final_total_low)

\* C2: base_cost_low and base_cost_high are each at least min_project_cost, and
\* each is the larger of its own sqft x rate and min_project_cost.
C2_BaseCostFloor ==
    Estimated =>
        LET info == project_info(selected_project_id)
            floor == Num(info.min_project_cost)
            low == Num(square_footage * info.base_cost_per_sqft_low)
            high == Num(square_footage * info.base_cost_per_sqft_high)
        IN  /\ RLe(floor, page.result.base_cost_low)
            /\ RLe(floor, page.result.base_cost_high)
            /\ RLe(low, page.result.base_cost_low)
            /\ RLe(high, page.result.base_cost_high)
            /\ page.result.base_cost_low \in {low, floor}
            /\ page.result.base_cost_high \in {high, floor}

\* the floor lifts the low branch and leaves the high branch alone
C2_Witness ==
    /\ Estimated
    /\ LET info == project_info(selected_project_id)
       IN  /\ square_footage * info.base_cost_per_sqft_low < info.min_project_cost
           /\ square_footage * info.base_cost_per_sqft_high > info.min_project_cost
           /\ page.result.base_cost_low = Num(info.min_project_cost)
           /\ page.result.base_cost_high = Num(square_footage * info.base_cost_per_sqft_high)

\* the worked example: rates 100/150, minimum 5000, 40 sq ft, finish 1.2,
\* complexity 1.1, contingency 10%, markup 15%, no add-on
IsExample ==
    /\ ConfigComplete
    /\ project_info(selected_project_id).base_cost_per_sqft_low = 100
    /\ project_info(selected_project_id).base_cost_per_sqft_high = 150
    /\ project_info(selected_project_id).min_project_cost = 5000
    /\ square_footage = 40
    /\ finish_info(selected_finish_id).multiplier = <<6, 5>>
    /\ complexity_info(selected_complexity_id).multiplier = <<11, 10>>
    /\ config["default_contingency_percent"] = 10
    /\ config["default_contractor_markup_percent"] = 15
    /\ checked = {}

\* C3: with no add-on selected the add-on totals are 0, the subtotal is the
\* post-complexity amount, contingency is subtotal x contingency%/100, markup is
\* (subtotal + contingency) x markup%/100, the final total is their sum, and the
\* worked example gives 8349 / 10018.8.
C3_NoAddonsCompounding ==
    (Estimated /\ page.result.addon_details = <<>>) =>
        LET r == page.result
            c == Percent(config["default_contingency_percent"])
            m == Percent(config["default_contractor_markup_percent"])
        IN  /\ r.addons_total_low = Num(0)
            /\ r.addons_total_high = Num(0)
            /\ r.subtotal_low = r.after_complexity_low
            /\ r.subtotal_high = r.after_complexity_high
            /\ r.contingency_low = RMul(r.subtotal_low, c)
            /\ r.contingency_high = RMul(r.subtotal_high, c)
            /\ r.markup_low = RMul(RAdd(r.subtotal_low, r.contingency_low), m)
            /\ r.markup_high = RMul(RAdd(r.subtotal_high, r.contingency_high), m)
            /\ r.final_total_low
                 = RAdd(RAdd(r.subtotal_low, r.contingency_low), r.markup_low)
            /\ r.final_total_high
                 = RAdd(RAdd(r.subtotal_high, r.contingency_high), r.markup_high)
            /\ IsExample =>
                 /\ r.subtotal_low = Num(6600) /\ r.subtotal_high = Num(7920)
                 /\ r.contingency_low = Num(660) /\ r.contingency_high = Num(792)
                 /\ r.markup_low = Num(1089) /\ r.markup_high = Rat(13068, 10)
                 /\ r.final_total_low = Num(8349)
                 /\ r.final_total_high = Rat(100188, 10)

\* the worked example has been calculated
C3_Witness == Estimated /\ IsExample /\ page.result.addon_details = <<>>

C6_LoadFailureStops ==
    (~csv_ok \/ ~ConfigComplete) => page.outcome = "stopped"

\* the quantity of add-on a is the only input that differs between two
\* consecutive estimates
QtyOnlyChange(a) ==
    /\ Estimated /\ Estimated'
    /\ UNCHANGED <<selected_project_id, square_footage, selected_finish_id,
                   selected_complexity_id, checked>>
    /\ DOMAIN addon_sqft_inputs' = DOMAIN addon_sqft_inputs
    /\ a \in DOMAIN addon_sqft_inputs
    /\ AddonRow(a).pricing_type = "per_sqft"
    /\ addon_sqft_inputs'[a] # addon_sqft_inputs[a]
    /\ \A b \in DOMAIN addon_sqft_inputs \ {a} :
          addon_sqft_inputs'[b] = addon_sqft_inputs[b]

DetailOf(r, a) ==
    CHOOSE d \in {r.addon_details[i] : i \in DOMAIN r.addon_details} : d.addon_id = a

\* C7: a per_sqft add-on with quantity q contributes q times what it contributes
\* with quantity 1, and changing only q moves addons_total and subtotal by the
\* change of that contribution and nothing else before the subtotal.
C7_QtyLinear ==
    /\ [](Estimated =>
            \A i \in DOMAIN page.result.addon_details :
                LET d == page.result.addon_details[i]
                    row == AddonRow(d.addon_id)
                    one == AddonContribution(row, [x \in {d.addon_id} |-> 1])
                IN  row.pricing_type = "per_sqft" =>
                        /\ d.addon_id \in DOMAIN addon_sqft_inputs
                        /\ d.low = RMul(one[1], Num(addon_sqft_inputs[d.addon_id]))
                        /\ d.high = RMul(one[2], Num(addon_sqft_inputs[d.addon_id])))
    /\ [][\A a \in AddonIds :
            QtyOnlyChange(a) =>
                LET r == page.result
                    n == page'.result
                IN  /\ n.base_cost_low = r.base_cost_low
                    /\ n.base_cost_high = r.base_cost_high
                    /\ n.after_finish_low = r.after_finish_low
                    /\ n.after_finish_high = r.after_finish_high
                    /\ n.after_complexity_low = r.after_complexity_low
                    /\ n.after_complexity_high = r.after_complexity_high
                    /\ DOMAIN n.addon_details = DOMAIN r.addon_details
                    /\ \A i \in DOMAIN r.addon_details :
                          r.addon_details[i].addon_id # a =>
                              n.addon_details[i] = r.addon_details[i]
                    /\ RSub(n.addons_total_low, r.addons_total_low)
                          = RSub(DetailOf(n, a).low, DetailOf(r, a).low)
                    /\ RSub(n.addons_total_high, r.addons_total_high)
                          = RSub(DetailOf(n, a).high, DetailOf(r, a).high)
                    /\ RSub(n.subtotal_low, r.subtotal_low)
                          = RSub(DetailOf(n, a).low, DetailOf(r, a).low)
                    /\ RSub(n.subtotal_high, r.subtotal_high)
                          = RSub(DetailOf(n, a).high, DetailOf(r, a).high)]_vars

\* an estimate with a per_sqft add-on whose quantity was typed by the user,
\* next to another selected add-on
C7_Witness ==
    /\ Estimated
    /\ Len(page.result.addon_details) > 1
    /\ \E a \in DOMAIN addon_sqft_inputs :
          /\ AddonRow(a).pricing_type = "per_sqft"
          /\ addon_sqft_inputs[a] \notin {1, DefaultQtyPerSqft}

\* the quantities recorded in inputs, with quantity q recorded for add-on a
WithQty(inputs, a, q) ==
    [x \in DOMAIN inputs \cup {a} |-> IF x = a THEN q ELSE inputs[x]]

\* C8: a flat add-on contributes (low, high), and recording any quantity for
\* its id leaves every amount of the estimate as it is.
C8_FlatIgnoresQty ==
    Estimated =>
        \A i \in DOMAIN page.result.addon_details :
            LET d == page.result.addon_details[i]
                row == AddonRow(d.addon_id)
            IN  row.pricing_type = "flat" =>
                    /\ d.low = Num(row.low)
                    /\ d.high = Num(row.high)
                    /\ \A q \in QtyTyped \cup {DefaultQtyPerSqft} :
                          Estimate(selected_project_id, square_footage,
                                   selected_finish_id, selected_complexity_id,
                                   selected_addons(selected_project_id, checked),
                                   WithQty(addon_sqft_inputs, d.addon_id, q), config)
                            = page.result

\* an estimate over more than one square foot with a flat add-on and an add-on
\* priced by a quantity other than 1
C8_Witness ==
    /\ Estimated
    /\ square_footage > 1
    /\ \E a \in checked : AddonRow(a).pricing_type = "flat"
    /\ \E a \in DOMAIN addon_sqft_inputs : addon_sqft_inputs[a] > 1

Unrecognized(a) == AddonRow(a).pricing_type \notin {"flat", "per_sqft", "per_unit"}

\* C9: an add-on whose pricing_type is none of flat, per_sqft, per_unit
\* contributes (low, high), has no quantity field, and raises no error.
C9_UnknownPricedFlat ==
    /\ Estimated =>
          \A i \in DOMAIN page.result.addon_details :
              LET d == page.result.addon_details[i]
                  row == AddonRow(d.addon_id)
              IN  Unrecognized(d.addon_id) =>
                      /\ d.low = Num(row.low)
                      /\ d.high = Num(row.high)
                      /\ d.addon_id \notin DOMAIN addon_sqft_inputs
    /\ (show_results /\ ConfigComplete /\ csv_ok /\ \E a \in checked : Unrecognized(a))
          => Estimated

\* an estimate that includes an add-on of unrecognized pricing_type
C9_Witness ==
    /\ Estimated
    /\ \E i \in DOMAIN page.result.addon_details :
          Unrecognized(page.result.addon_details[i].addon_id)

\* C10: show_results is false when a session starts, turns true only in a run
\* whose calculate button was clicked, stays true until a new session, and
\* while it is true every run renders the estimate of the current inputs.
C10_ShowResults ==
    /\ ~show_results
    /\ [][/\ NewSession => ~show_results'
          /\ (~show_results /\ show_results') => page'.clicked
          /\ (show_results /\ ~NewSession) => show_results']_vars
    /\ []((show_results /\ ConfigComplete) =>
            (Estimated /\ page.result = CurrentEstimate))

\* an estimate rendered by a run in which the button was not clicked, for
\* inputs other than the defaults
C10_Witness ==
    /\ show_results
    /\ ~page.clicked
    /\ Estimated
    /\ square_footage # DefaultSquareFootage
    /\ checked # {}
    /\ page.result = CurrentEstimate

====
